---- MODULE Spec2Model ----
(***************************************************************************)
(* Model of tool_use/src/tools.py (the four tools and the get_ticker       *)
(* helper) and of tool_use/src/test.py (the driver that calls the agent    *)
(* entry point once per query).                                            *)
(*                                                                         *)
(* Python values are tagged records.  A Python str is a sequence of        *)
(* tokens: every literal fragment of an f-string is one token, the word    *)
(* "Error" is always a token of its own, and a formatted number is a       *)
(* sequence of digit tokens.  Numbers are kept in units of 1/1000.        *)
(***************************************************************************)
EXTENDS Integers, Sequences, FiniteSets, TLC

\* ------------------------------------------------------------------------
\* Bounds of the model
\* ------------------------------------------------------------------------
NumProcs == 2

Procs == 1..NumProcs

\* ------------------------------------------------------------------------
\* Python values
\* ------------------------------------------------------------------------
PyNone == [t |-> "None"]

PyStr(toks) == [t |-> "str", s |-> toks]

PyFloat(units) == [t |-> "float", u |-> units]

PyInt(n) == [t |-> "int", u |-> n * 1000]

\* True and False; they multiply and format as the integers 1 and 0
PyBool(b) == [t |-> "bool", u |-> IF b THEN 1000 ELSE 0]

PyList(items) == [t |-> "list", items |-> items]

PyDict(d) == [t |-> "dict", d |-> d]

EmptyDict == PyDict(<<>>)

IsStr(v) == v.t = "str"

IsNum(v) == v.t \in {"float", "int", "bool"}

\* bool(v) as Python computes it for the value kinds above
Truthy(v) ==
  CASE v.t = "None" -> FALSE
    [] v.t = "str" -> v.s # <<>>
    [] v.t \in {"float", "int", "bool"} -> v.u # 0
    [] v.t = "list" -> v.items # <<>>
    [] v.t = "dict" -> DOMAIN v.d # {}

\* ------------------------------------------------------------------------
\* Strings
\* ------------------------------------------------------------------------
Digit(d) ==
  CASE d = 0 -> "0" [] d = 1 -> "1" [] d = 2 -> "2" [] d = 3 -> "3"
    [] d = 4 -> "4" [] d = 5 -> "5" [] d = 6 -> "6" [] d = 7 -> "7"
    [] d = 8 -> "8" [] d = 9 -> "9"

RECURSIVE IntStr(_)
\* str(n) for an integer n >= 0
IntStr(n) == IF n < 10 THEN <<Digit(n)>> ELSE IntStr(n \div 10) \o <<Digit(n % 10)>>

\* format(x, ".2f") for a number x >= 0 held in units of 1/1000:
\* round half to even to hundredths, then two decimals
Fixed2(units) ==
  LET q == units \div 10
      r == units % 10
      h == IF r > 5 \/ (r = 5 /\ q % 2 = 1) THEN q + 1 ELSE q
  IN IntStr(h \div 100) \o <<".">> \o <<Digit((h % 100) \div 10), Digit(h % 10)>>

RECURSIVE FracStr(_, _)
\* the decimals of a fraction f (in units of 1/scale), trailing zeros dropped
FracStr(f, scale) ==
  IF f = 0 THEN <<>>
  ELSE <<Digit((f * 10) \div scale)>> \o FracStr((f * 10) % scale, scale)

\* repr of a float >= 0 (what an f-string prints for it): 100.0, 0.85
FloatRepr(units) ==
  LET f == FracStr(units % 1000, 1000)
  IN IntStr(units \div 1000) \o <<".">> \o (IF f = <<>> THEN <<"0">> ELSE f)

\* str(v), what f"{v}" puts into the string
ToStr(v) ==
  CASE v.t = "str" -> v.s
    [] v.t = "None" -> <<"None">>
    [] v.t = "float" -> FloatRepr(v.u)
    [] v.t = "int" -> IntStr(v.u \div 1000)
    [] v.t = "bool" -> IF v.u # 0 THEN <<"True">> ELSE <<"False">>
    [] v.t = "list" -> <<"[...]">>
    [] v.t = "dict" -> <<"{...}">>

UpperTok(tok) ==
  CASE tok = "usd" -> "USD"
    [] tok = "eur" -> "EUR"
    [] tok = "jpy" -> "JPY"
    [] OTHER -> tok

\* str.upper()
Upper(toks) == [i \in DOMAIN toks |-> UpperTok(toks[i])]

IsSpace(tok) == tok \in {" ", "\n"}

RECURSIVE LStrip(_)
LStrip(toks) ==
  IF toks # <<>> /\ IsSpace(Head(toks)) THEN LStrip(Tail(toks)) ELSE toks

RECURSIVE RStrip(_)
RStrip(toks) ==
  IF toks # <<>> /\ IsSpace(toks[Len(toks)])
  THEN RStrip(SubSeq(toks, 1, Len(toks) - 1))
  ELSE toks

\* str.strip()
Strip(toks) == RStrip(LStrip(toks))

\* the string contains the given word
HasWord(toks, w) == \E i \in DOMAIN toks : toks[i] = w

\* ------------------------------------------------------------------------
\* Outcomes of running a piece of a function body
\* ------------------------------------------------------------------------
Ret(v) == [k |-> "return", v |-> v]

\* an exception whose str(e) is msg
Raise(msg) == [k |-> "raise", e |-> msg]

\* the body blocks on an external request
Request(r) == [k |-> "request", r |-> r]

NoTimeout == 0

\* ------------------------------------------------------------------------
\* What an upstream service can answer to one request
\* ------------------------------------------------------------------------
\* the connection fails (DNS, refused, reset)
NetErr == [k |-> "neterr"]

\* the deadline of the request passes without an answer
TimedOut == [k |-> "timeout"]

Http(status, body) == [k |-> "http", status |-> status, body |-> body]

\* a body that is not JSON
Text(toks) == [t |-> "text", s |-> toks]

Json(v) == [t |-> "json", v |-> v]

\* what the HTTP client raises before a body is available, <<>> if nothing:
\* urlopen raises on a connection error and on a non-2xx status, requests
\* raises on a connection error and raise_for_status() on a non-2xx status
TransportError(r) ==
  CASE r.k = "neterr" -> <<"Connection ", "Error">>
    [] r.k = "timeout" -> <<"Read timed out.">>
    [] r.k = "http" /\ r.status # 200 -> IntStr(r.status) \o <<" ", "Error">>
    [] OTHER -> <<>>

\* ------------------------------------------------------------------------
\* convert_currency                                    tools.py lines 13-38
\* ------------------------------------------------------------------------
\* key in container, as Python evaluates `in` for the container's type
Contains(container, key) ==
  CASE container.t = "dict" -> Ret(key \in DOMAIN container.d)
    [] container.t = "list" ->
         Ret(\E i \in DOMAIN container.items :
               /\ container.items[i].t = "str"
               /\ container.items[i].s = <<key>>)
    [] container.t = "str" -> Ret(HasWord(container.s, key))
    [] OTHER -> Raise(<<"argument of type '", container.t, "' is not iterable">>)

\* obj.get(key), with None as the default
DictGet(obj, key) ==
  IF obj.t # "dict"
  THEN Raise(<<"'", obj.t, "' object has no attribute 'get'">>)
  ELSE Ret(IF key \in DOMAIN obj.d THEN obj.d[key] ELSE PyNone)

\* obj.upper()
StrUpper(obj) ==
  IF obj.t # "str"
  THEN Raise(<<"'", obj.t, "' object has no attribute 'upper'">>)
  ELSE Ret(PyStr(Upper(obj.s)))

RECURSIVE Repeat(_, _)
Repeat(toks, n) == IF n <= 0 THEN <<>> ELSE toks \o Repeat(toks, n - 1)

\* x * y
Mul(x, y) ==
  CASE IsNum(x) /\ IsNum(y) ->
         Ret([t |-> IF x.t = "float" \/ y.t = "float" THEN "float" ELSE "int",
              u |-> (x.u * y.u) \div 1000])
    [] x.t = "str" /\ y.t \in {"int", "bool"} -> Ret(PyStr(Repeat(x.s, y.u \div 1000)))
    [] x.t \in {"int", "bool"} /\ y.t = "str" -> Ret(PyStr(Repeat(y.s, x.u \div 1000)))
    [] OTHER -> Raise(<<"unsupported operand type(s) for *: '", x.t, "' and '", y.t, "'">>)

\* f"{v:.2f}"
FormatFixed2(v) ==
  IF IsNum(v)
  THEN Ret(Fixed2(v.u))
  ELSE Raise(<<"Unknown format code 'f' for object of type '", v.t, "'">>)

\* the one-token key of a currency code (the empty string for no token)
KeyOf(toks) == IF Len(toks) = 1 THEN toks[1] ELSE ""

\* the slip `if rate is None`
RateIsNone(rate) == rate.t = "None"

\* line 31: `if not rate`
RateMissing(rate) == ~Truthy(rate)

\* lines 27-35: the body once the response is parsed into data
ConvertWithData(amount, from_currency, to_currency, data) ==
  LET has == Contains(data, "rates") IN
  IF has.k = "raise" THEN has
  ELSE IF ~has.v THEN Ret(PyStr(<<"Error", ": Could not fetch exchange rates">>))
  ELSE IF data.t # "dict" THEN Raise(<<"indices must be integers">>)
  ELSE
    LET up == StrUpper(to_currency) IN
    IF up.k = "raise" THEN up
    ELSE
      LET got == DictGet(data.d["rates"], KeyOf(up.v.s)) IN
      IF got.k = "raise" THEN got
      ELSE IF RateMissing(got.v)
      THEN Ret(PyStr(<<"Error", ": No rate found for ">> \o ToStr(to_currency)))
      ELSE
        LET converted == Mul(amount, got.v) IN
        IF converted.k = "raise" THEN converted
        ELSE
          LET shown == FormatFixed2(converted.v) IN
          IF shown.k = "raise" THEN shown
          ELSE Ret(PyStr(ToStr(amount) \o <<" ">> \o Upper(from_currency.s)
                         \o <<" = ">> \o shown.v \o <<" ">> \o up.v.s))

\* lines 23-35: the try block, given the responses received so far
ConvertCurrencyTry(a, resps) ==
  LET from == StrUpper(a.from_currency) IN
  IF from.k = "raise" THEN from
  ELSE IF resps = <<>>
  THEN Request([svc |-> "open.er-api.com",
                target |-> <<"https://open.er-api.com/v6/latest/">> \o from.v.s,
                payload |-> PyNone,
                timeout |-> NoTimeout])
  ELSE
    LET r == resps[1] IN
    IF TransportError(r) # <<>> THEN Raise(TransportError(r))
    ELSE IF r.body.t # "json" THEN Raise(<<"Expecting value">>)
    ELSE ConvertWithData(a.amount, a.from_currency, a.to_currency, r.body.v)

\* lines 22-38: try ... except Exception as e
ConvertCurrency(a, resps) ==
  LET o == ConvertCurrencyTry(a, resps) IN
  IF o.k = "raise"
  THEN Ret(PyStr(<<"Error", " converting currency: ">> \o o.e))
  ELSE o

\* ------------------------------------------------------------------------
\* get_weather                                         tools.py lines 41-57
\* ------------------------------------------------------------------------
\* Binding of the keyword arguments kw of a call to the signature
\* (city: str = None, **kwargs): city takes its default when not passed,
\* every other keyword lands in kwargs.
BindCity(kw) == IF "city" \in DOMAIN kw THEN kw["city"] ELSE PyNone

BindKwargs(kw) == [n \in (DOMAIN kw) \ {"city"} |-> kw[n]]

\* the slip of never looking at kwargs
WeatherCityNoAlias(city, kwargs) == city

\* the slip `city = city or kwargs.get("location")`
WeatherCityOrLocation(city, kwargs) ==
  IF Truthy(city) THEN city
  ELSE (IF "location" \in DOMAIN kwargs THEN kwargs["location"] ELSE PyNone)

\* lines 47-48: the city the body works with
WeatherCity(city, kwargs) ==
  IF city.t = "None"
  THEN (IF "location" \in DOMAIN kwargs THEN kwargs["location"] ELSE PyNone)
  ELSE city

\* lines 52-55: the try block
GetWeatherTry(city, resps) ==
  IF resps = <<>>
  THEN Request([svc |-> "wttr.in",
                target |-> <<"http://wttr.in/">> \o ToStr(city) \o <<"?format=3">>,
                payload |-> PyNone,
                timeout |-> 5])
  ELSE
    LET r == resps[1] IN
    IF TransportError(r) # <<>> THEN Raise(TransportError(r))
    ELSE Ret(PyStr(Strip(r.body.s)))

\* the slip of leaving the request outside any try
GetWeatherUnguarded(city, resps) == GetWeatherTry(city, resps)

\* lines 51-57: try ... except Exception as e
GetWeatherGuarded(city, resps) ==
  LET o == GetWeatherTry(city, resps) IN
  IF o.k = "raise"
  THEN Ret(PyStr(<<"Error", " retrieving weather for ">> \o ToStr(city)
                 \o <<": ">> \o o.e))
  ELSE o

\* lines 42-57: the whole body, for a call with keyword arguments kw
GetWeather(kw, resps) ==
  LET city == WeatherCity(BindCity(kw), BindKwargs(kw)) IN
  IF ~Truthy(city)
  THEN Ret(PyStr(<<"Error", ": No city provided.">>))
  ELSE GetWeatherGuarded(city, resps)

\* ------------------------------------------------------------------------
\* web_search                                          tools.py lines 62-91
\* ------------------------------------------------------------------------
\* result.get(name, default) of one search result
ResultField(result, name, default) ==
  IF result.t # "dict"
  THEN Raise(<<"'", result.t, "' object has no attribute 'get'">>)
  ELSE Ret(IF name \in DOMAIN result.d THEN result.d[name] ELSE PyStr(<<default>>))

RECURSIVE FormatResults(_, _)
\* lines 84-88: the loop over enumerate(results, 1), from index i on
FormatResults(results, i) ==
  IF i > Len(results) THEN Ret(<<>>)
  ELSE
    LET title == ResultField(results[i], "title", "No Title")
        snippet == ResultField(results[i], "snippet", "No snippet available")
    IN
    IF title.k = "raise" THEN title
    ELSE
      LET rest == FormatResults(results, i + 1) IN
      IF rest.k = "raise" THEN rest
      ELSE Ret(<<"Result ">> \o IntStr(i) \o <<": ">> \o ToStr(title.v) \o <<"\n">>
               \o ToStr(snippet.v) \o <<"\n", "\n">> \o rest.v)

\* lines 80-89: the body once the response arrived
SearchWithResponse(r) ==
  IF r.body.t # "json" THEN Raise(<<"Expecting value">>)
  ELSE
    LET got == DictGet(r.body.v, "results")
        results == IF got.k = "raise" THEN got
                   ELSE IF "results" \in DOMAIN r.body.v.d THEN got
                   ELSE Ret(PyList(<<>>))
    IN
    IF results.k = "raise" THEN results
    ELSE IF ~Truthy(results.v) THEN Ret(PyStr(<<"No results found.">>))
    ELSE IF results.v.t # "list"
    THEN Raise(<<"'", results.v.t, "' object is not iterable">>)
    ELSE
      LET f == FormatResults(results.v.items, 1) IN
      IF f.k = "raise" THEN f ELSE Ret(PyStr(Strip(f.v)))

\* lines 68-89: the payload and the try block; key is the module's
\* TAVILY_API_KEY as read when the payload is built
WebSearchTry(a, key, resps) ==
  IF resps = <<>>
  THEN Request([svc |-> "api.tavily.com",
                target |-> <<"https://api.tavily.com/search">>,
                payload |-> PyDict([api_key |-> key, query |-> a.query]),
                timeout |-> 10])
  ELSE
    LET r == resps[1] IN
    IF TransportError(r) # <<>> THEN Raise(TransportError(r))
    ELSE SearchWithResponse(r)

\* lines 77-91: try ... except Exception as e
WebSearch(a, key, resps) ==
  LET o == WebSearchTry(a, key, resps) IN
  IF o.k = "raise"
  THEN Ret(PyStr(<<"Error", " during web search: ">> \o o.e))
  ELSE o

\* ------------------------------------------------------------------------
\* get_ticker and get_stock_price                     tools.py lines 95-131
\* ------------------------------------------------------------------------
\* lines 105-110: the ticker symbol in a parsed search response
TickerFromData(data) ==
  LET got == DictGet(data, "quotes")
      quotes == IF got.k = "raise" THEN got
                ELSE IF "quotes" \in DOMAIN data.d THEN got
                ELSE Ret(PyList(<<>>))
  IN
  IF quotes.k = "raise" THEN quotes
  ELSE IF ~Truthy(quotes.v) THEN Ret(PyNone)
  ELSE IF quotes.v.t # "list" THEN Raise(<<"0">>)
  ELSE DictGet(quotes.v.items[1], "symbol")

\* lines 101-110: the try block of get_ticker
GetTickerTry(company, resps) ==
  IF resps = <<>>
  THEN Request([svc |-> "query2.finance.yahoo.com",
                target |-> <<"https://query2.finance.yahoo.com/v1/finance/search?q=">>
                           \o ToStr(company),
                payload |-> PyNone,
                timeout |-> 10])
  ELSE
    LET r == resps[1] IN
    IF TransportError(r) # <<>> THEN Raise(TransportError(r))
    ELSE IF r.body.t # "json" THEN Raise(<<"Expecting value">>)
    ELSE TickerFromData(r.body.v)

\* lines 100-112: try ... except Exception: return None
GetTicker(company, resps) ==
  LET o == GetTickerTry(company, resps) IN
  IF o.k = "raise" THEN Ret(PyNone) ELSE o

\* lines 124-129: the try block of get_stock_price; resps are the answers
\* of the price service.  history() of the finance library is called with
\* its own default timeout of 10 seconds.
StockPriceTry(company, ticker_symbol, resps) ==
  IF resps = <<>>
  THEN Request([svc |-> "yfinance",
                target |-> ToStr(ticker_symbol),
                payload |-> PyStr(<<"1d">>),
                timeout |-> 10])
  ELSE
    LET r == resps[1] IN
    IF r.k # "frame" THEN Raise(TransportError(r))
    ELSE IF r.close = <<>>
    THEN Ret(PyStr(<<"Could not retrieve data for ">> \o ToStr(company) \o <<".">>))
    ELSE
      LET price == r.close[Len(r.close)]
          shown == FormatFixed2(price)
      IN
      IF shown.k = "raise" THEN shown
      ELSE Ret(PyStr(<<"The current stock price of ">> \o ToStr(company) \o <<" (">>
                     \o ToStr(ticker_symbol) \o <<") is $">> \o shown.v))

\* lines 123-131: try ... except Exception as e
StockPriceGuarded(company, ticker_symbol, resps) ==
  LET o == StockPriceTry(company, ticker_symbol, resps) IN
  IF o.k = "raise"
  THEN Ret(PyStr(<<"Error", " retrieving stock price for ">> \o ToStr(company)
                 \o <<": ">> \o o.e))
  ELSE o

\* the slip `if ticker_symbol is None`
TickerIsNone(ticker_symbol) == ticker_symbol.t = "None"

\* line 121: `if not ticker_symbol`
TickerMissing(ticker_symbol) == ~Truthy(ticker_symbol)

\* lines 115-131: the whole body; resps[1] answers get_ticker's request,
\* resps[2] the price lookup
GetStockPrice(a, resps) ==
  LET t == GetTicker(a.company, IF resps = <<>> THEN <<>> ELSE <<resps[1]>>) IN
  IF t.k = "request" THEN t
  ELSE IF TickerMissing(t.v)
  THEN Ret(PyStr(<<"Could not find a ticker symbol for ">> \o ToStr(a.company)
                 \o <<".">>))
  ELSE StockPriceGuarded(a.company, t.v, Tail(resps))

\* ------------------------------------------------------------------------
\* The calls and the upstream answers the model draws from
\* ------------------------------------------------------------------------
Amounts == {PyFloat(100 * 1000), PyStr(<<"abc">>)}

FromCodes == {PyStr(<<"usd">>), PyNone}

ToCodes == {PyStr(<<"eur">>), PyStr(<<"JPY">>)}

\* a city, a location: absent from the call, None, empty, or a name
Places == {PyNone, PyStr(<<>>), PyStr(<<"Berlin">>), PyStr(<<"Paris">>)}

KwNames == {"city", "location", "units"}

KwValues(n) == IF n = "units" THEN {PyStr(<<"m">>)} ELSE Places

\* every way to pass a subset of the keywords
KwCalls == UNION {{kw \in [S -> Places \cup {PyStr(<<"m">>)}] :
                     \A n \in S : kw[n] \in KwValues(n)} : S \in SUBSET KwNames}

Calls ==
  {[tool |-> "convert_currency",
    a |-> [amount |-> am, from_currency |-> f, to_currency |-> t]] :
      am \in Amounts, f \in FromCodes, t \in ToCodes}
  \cup {[tool |-> "get_weather", a |-> kw] : kw \in KwCalls}
  \cup {[tool |-> "web_search", a |-> [query |-> q]] :
          q \in {PyStr(<<"population of France">>), PyNone}}
  \cup {[tool |-> "get_stock_price", a |-> [company |-> c]] :
          c \in {PyStr(<<"Apple">>), PyNone}}

RateValues == {PyNone, PyInt(0), PyFloat(0), PyFloat(850), PyInt(2),
               PyBool(TRUE), PyStr(<<"1.2">>)}

RateMaps == {<<>>} \cup {[EUR |-> v] : v \in RateValues}
            \cup {[eur |-> PyFloat(850)]}

ExchangeData ==
  {PyInt(5), PyList(<<>>), EmptyDict, PyDict([rates |-> PyList(<<>>)])}
  \cup {PyDict([rates |-> PyDict(m)]) : m \in RateMaps}

Hit1 == PyDict([title |-> PyStr(<<"France">>), snippet |-> PyStr(<<"68 million">>)])

Hit2 == PyDict([title |-> PyStr(<<"Demographics">>)])

SearchData ==
  {PyList(<<>>), EmptyDict, PyDict([results |-> PyNone]), PyDict([results |-> PyInt(5)])}
  \cup {PyDict([results |-> PyList(hits)]) :
          hits \in {<<>>, <<Hit1>>, <<Hit1, Hit2>>, <<PyStr(<<"France">>)>>}}

TickerData ==
  {PyList(<<>>), EmptyDict, PyDict([quotes |-> PyDict([a |-> PyNone])])}
  \cup {PyDict([quotes |-> PyList(qs)]) :
          qs \in {<<>>, <<EmptyDict>>, <<PyStr(<<"AAPL">>)>>,
                  <<PyDict([symbol |-> PyNone])>>,
                  <<PyDict([symbol |-> PyStr(<<>>)])>>,
                  <<PyDict([symbol |-> PyStr(<<"AAPL">>)]),
                    PyDict([symbol |-> PyStr(<<"APLE">>)])>>}}

JsonReplies(data) ==
  {NetErr, Http(500, Text(<<"Internal Server ", "Error">>)), Http(200, Text(<<"<html>">>))}
  \cup {Http(200, Json(d)) : d \in data}

\* a price history: the frame's Close column
Frame(close) == [k |-> "frame", close |-> close]

\* What the service of request r may answer.  A service that never answers
\* is the behaviour in which none of these is delivered.
Replies(r) ==
  CASE r.svc = "open.er-api.com" -> JsonReplies(ExchangeData)
    [] r.svc = "wttr.in" ->
         {NetErr, Http(404, Text(<<"Unknown location">>)),
          Http(200, Text(<<r.target[2], ": +5C", "\n">>))}
    [] r.svc = "api.tavily.com" ->
         JsonReplies(SearchData) \cup {Http(401, Json(EmptyDict))}
    [] r.svc = "query2.finance.yahoo.com" -> JsonReplies(TickerData)
    [] r.svc = "yfinance" ->
         {NetErr, Frame(<<>>), Frame(<<PyFloat(149125), PyFloat(150256)>>)}

\* ------------------------------------------------------------------------
\* State
\* ------------------------------------------------------------------------
VARIABLES
  env,             \* the process environment's TAVILY_API_KEY, PyNone if unset
  TAVILY_API_KEY,  \* the module-level variable of line 12
  pc,              \* per worker: "idle", "waiting", "done" or "raised"
  call,            \* per worker: the tool call it executes
  sent,            \* per worker: the external requests the call issued
  resp,            \* per worker: the answers the call received
  result,          \* per worker: the value the call returned
  startup,         \* the import of tools.py: statement reached, registry, error
  agent            \* the driver of test.py and the agent turn it is in

toolVars == <<env, TAVILY_API_KEY, pc, call, sent, resp, result>>

vars == <<env, TAVILY_API_KEY, pc, call, sent, resp, result, startup, agent>>

NoCall == [tool |-> "none"]

\* the value of a part of the state that a specification leaves out
NotModelled == [pc |-> "not modelled"]

\* os.getenv(name): the value, or None when the variable is not set
Getenv(e) == e

\* a tool body run from its start with the answers received so far: it
\* returns, raises, or blocks on its next request
Run(c, key, resps) ==
  CASE c.tool = "convert_currency" -> ConvertCurrency(c.a, resps)
    [] c.tool = "get_weather" -> GetWeather(c.a, resps)
    [] c.tool = "web_search" -> WebSearch(c.a, key, resps)
    [] c.tool = "get_stock_price" -> GetStockPrice(c.a, resps)

\* the slip of a body that declares the key global and clears it after use
KeyAfterCleared(c, key) == IF c.tool = "web_search" THEN PyNone ELSE key

\* The module-level variable after a tool body ran: no body has a `global`
\* statement or assigns TAVILY_API_KEY, so it keeps its value.
KeyAfter(c, key) == key

IdleWorkers ==
  /\ pc = [p \in Procs |-> "idle"]
  /\ call = [p \in Procs |-> NoCall]
  /\ sent = [p \in Procs |-> <<>>]
  /\ resp = [p \in Procs |-> <<>>]
  /\ result = [p \in Procs |-> PyNone]

\* the module has been loaded: line 12 has run
Init ==
  /\ env \in {PyNone, PyStr(<<"tvly-key">>)}
  /\ TAVILY_API_KEY = Getenv(env)
  /\ IdleWorkers
  /\ startup = NotModelled
  /\ agent = NotModelled

\* worker p runs call c, which has received rs, up to its next request or
\* to its end
Advance(p, c, rs) ==
  LET o == Run(c, TAVILY_API_KEY, rs) IN
  /\ pc' = [pc EXCEPT ![p] = CASE o.k = "request" -> "waiting"
                                [] o.k = "return" -> "done"
                                [] o.k = "raise" -> "raised"]
  /\ sent' = [sent EXCEPT ![p] = IF o.k = "request" THEN Append(@, o.r) ELSE @]
  /\ result' = [result EXCEPT ![p] = IF o.k = "return" THEN o.v ELSE @]
  /\ TAVILY_API_KEY' = KeyAfter(c, TAVILY_API_KEY)
  /\ UNCHANGED <<env, startup, agent>>

\* worker p is handed the tool call c
Call(p, c) ==
  /\ pc[p] = "idle"
  /\ call' = [call EXCEPT ![p] = c]
  /\ resp' = [resp EXCEPT ![p] = <<>>]
  /\ Advance(p, c, <<>>)

\* the answer r to p's outstanding request arrives
Receive(p, r) ==
  /\ pc[p] = "waiting"
  /\ r \in Replies(sent[p][Len(sent[p])])
  /\ resp' = [resp EXCEPT ![p] = Append(@, r)]
  /\ UNCHANGED call
  /\ Advance(p, call[p], Append(resp[p], r))

\* the service answers p's outstanding request in one of the ways it can
Answer(p) ==
  /\ pc[p] = "waiting"
  /\ \E r \in Replies(sent[p][Len(sent[p])]) : Receive(p, r)

\* the deadline of p's outstanding request passes; a request without a
\* deadline is waited for indefinitely
Timeout(p) ==
  /\ pc[p] = "waiting"
  /\ sent[p][Len(sent[p])].timeout # NoTimeout
  /\ resp' = [resp EXCEPT ![p] = Append(@, TimedOut)]
  /\ UNCHANGED call
  /\ Advance(p, call[p], Append(resp[p], TimedOut))

\* the caller takes p's result; p is free for the next call
Finish(p) ==
  /\ pc[p] \in {"done", "raised"}
  /\ pc' = [pc EXCEPT ![p] = "idle"]
  /\ call' = [call EXCEPT ![p] = NoCall]
  /\ sent' = [sent EXCEPT ![p] = <<>>]
  /\ resp' = [resp EXCEPT ![p] = <<>>]
  /\ result' = [result EXCEPT ![p] = PyNone]
  /\ UNCHANGED <<env, TAVILY_API_KEY, startup, agent>>

\* the tools called one after the other, by one caller
Next ==
  \/ \E c \in Calls : Call(1, c)
  \/ Answer(1)
  \/ Timeout(1)
  \/ Finish(1)

Spec == Init /\ [][Next]_vars

\* ------------------------------------------------------------------------
\* The tool calls of one round run concurrently
\* ------------------------------------------------------------------------
ConcCalls ==
  {[tool |-> "convert_currency",
    a |-> [amount |-> PyFloat(100 * 1000), from_currency |-> PyStr(<<"usd">>),
           to_currency |-> PyStr(<<"eur">>)]],
   [tool |-> "get_weather", a |-> [location |-> PyStr(<<"Berlin">>)]],
   [tool |-> "web_search", a |-> [query |-> PyStr(<<"population of France">>)]],
   [tool |-> "get_stock_price", a |-> [company |-> PyStr(<<"Apple">>)]]}

\* one success per service
ConcReplies(r) ==
  CASE r.svc = "open.er-api.com" ->
         {Http(200, Json(PyDict([rates |-> PyDict([EUR |-> PyFloat(850)])])))}
    [] r.svc = "wttr.in" -> {Http(200, Text(<<r.target[2], ": +5C", "\n">>))}
    [] r.svc = "api.tavily.com" ->
         {Http(200, Json(PyDict([results |-> PyList(<<Hit1>>)])))}
    [] r.svc = "query2.finance.yahoo.com" ->
         {Http(200, Json(PyDict([quotes |->
                                   PyList(<<PyDict([symbol |-> PyStr(<<"AAPL">>)])>>)])))}
    [] r.svc = "yfinance" -> {Frame(<<PyFloat(150256)>>)}

\* the service answers p's request with a success or a connection error
AnswerConc(p) ==
  /\ pc[p] = "waiting"
  /\ \E r \in ConcReplies(sent[p][Len(sent[p])]) \cup {NetErr} : Receive(p, r)

ConcNext ==
  \/ \E p \in Procs : \E c \in ConcCalls : Call(p, c)
  \/ \E p \in Procs : AnswerConc(p)
  \/ \E p \in Procs : Timeout(p)
  \/ \E p \in Procs : Finish(p)

ConcSpec == Init /\ [][ConcNext]_vars

\* ------------------------------------------------------------------------
\* Properties of the tools
\* ------------------------------------------------------------------------
\* p has a call in progress or finished
Active(p) == pc[p] \in {"waiting", "done", "raised"}

ActiveTool(p, tool) == Active(p) /\ call[p].tool = tool

Returned(p, toks) == pc[p] = "done" /\ result[p] = PyStr(toks)

\* the requests a call issues when it runs alone, with module variable key,
\* and is answered rs
Issued(c, key, rs) ==
  LET n == Len(rs) + (IF Run(c, key, rs).k = "request" THEN 1 ELSE 0)
  IN [i \in 1..n |-> Run(c, key, SubSeq(rs, 1, i - 1)).r]

\* p's requests and result are those of call c running alone, answered as
\* p was
SameAsAlone(p, c, key) ==
  /\ sent[p] = Issued(c, key, resp[p])
  /\ pc[p] = (CASE Run(c, key, resp[p]).k = "request" -> "waiting"
                [] Run(c, key, resp[p]).k = "return" -> "done"
                [] OTHER -> "raised")
  /\ pc[p] = "done" => result[p] = Run(c, key, resp[p]).v

\* C1: whatever the arguments and whatever the upstream answers (success,
\* connection error, non-2xx status, non-JSON or malformed body, missing
\* field, deadline passed), a tool call that ends ends by returning a str:
\* no exception leaves the tool body.
C1_ToolsReturnStrings ==
  \A p \in Procs :
    /\ pc[p] # "raised"
    /\ pc[p] = "done" => IsStr(result[p])

\* every tool has turned an upstream failure into its returned string
C1_Witness ==
  \E p \in Procs :
    /\ pc[p] = "done"
    /\ call[p].tool = "get_weather"
    /\ resp[p] = <<NetErr>>
    /\ HasWord(result[p].s, "Error")

\* C2: with TAVILY_API_KEY absent from the environment, every web_search
\* call returns a string containing the word "Error", whatever the search
\* service answers to the request carrying the empty credential.
C2_MissingKeyAlwaysError ==
  \A p \in Procs :
    (env.t = "None" /\ pc[p] = "done" /\ call[p].tool = "web_search")
      => IsStr(result[p]) /\ HasWord(result[p].s, "Error")

\* C3: every external request a tool issues carries a deadline, so that a
\* service that never answers cannot block the call.
C3_EveryRequestHasDeadline ==
  \A p \in Procs :
    \A i \in DOMAIN sent[p] : sent[p][i].timeout # NoTimeout

\* the call get_weather(city = v), no other keyword
CityOnly(v) == [tool |-> "get_weather", a |-> [city |-> v]]

\* C5: get_weather(location = v) with city not passed issues the same
\* request and returns the same string as get_weather(city = v), for every
\* v and every answer; any other unlisted keyword is accepted and ignored.
C5_LocationIsAliasOfCity ==
  \A p \in Procs :
    ActiveTool(p, "get_weather") =>
      LET kw == call[p].a
          listed == [n \in (DOMAIN kw) \cap {"city", "location"} |-> kw[n]]
      IN
      /\ SameAsAlone(p, [tool |-> "get_weather", a |-> listed], TAVILY_API_KEY)
      /\ ("location" \in DOMAIN kw /\ "city" \notin DOMAIN kw)
           => SameAsAlone(p, CityOnly(kw["location"]), TAVILY_API_KEY)

\* a call by location, with another unlisted keyword, got the weather
C5_Witness ==
  \E p \in Procs :
    /\ pc[p] = "done"
    /\ call[p] = [tool |-> "get_weather",
                  a |-> [location |-> PyStr(<<"Berlin">>), units |-> PyStr(<<"m">>)]]
    /\ result[p] = PyStr(<<"Berlin", ": +5C">>)

\* the answer r to a ticker search holds a first quote with a non-empty
\* symbol
ResolvesTicker(r) ==
  /\ r.k = "http" /\ r.status = 200 /\ r.body.t = "json"
  /\ r.body.v.t = "dict" /\ "quotes" \in DOMAIN r.body.v.d
  /\ LET quotes == r.body.v.d["quotes"] IN
     /\ quotes.t = "list" /\ quotes.items # <<>>
     /\ quotes.items[1].t = "dict" /\ "symbol" \in DOMAIN quotes.items[1].d
     /\ Truthy(quotes.items[1].d["symbol"])

\* C8: in get_stock_price the ticker search comes first and the price
\* lookup is made only for a non-empty symbol it produced; when the
\* resolution fails for any reason (connection error, deadline, non-2xx,
\* unusable body, no quotes, first quote without a symbol) no price
\* request is made and the call returns "Could not find a ticker symbol
\* for <company>.", the same string for an outage and an unknown company.
C8_TickerBeforePrice ==
  \A p \in Procs :
    ActiveTool(p, "get_stock_price") =>
      /\ Len(sent[p]) \in {1, 2}
      /\ sent[p][1].svc = "query2.finance.yahoo.com"
      /\ Len(sent[p]) = 2 =>
           /\ sent[p][2].svc = "yfinance"
           /\ ResolvesTicker(resp[p][1])
           /\ sent[p][2].target = resp[p][1].body.v.d["quotes"].items[1].d["symbol"].s
      /\ (resp[p] # <<>> /\ ~ResolvesTicker(resp[p][1])) =>
           /\ Len(sent[p]) = 1
           /\ Returned(p, <<"Could not find a ticker symbol for ">>
                          \o ToStr(call[p].a.company) \o <<".">>)
      /\ (resp[p] # <<>> /\ ResolvesTicker(resp[p][1])) => Len(sent[p]) = 2

\* an outage of the ticker search ended the call without a price request
C8_Witness ==
  \E p \in Procs :
    /\ call[p].tool = "get_stock_price"
    /\ resp[p] = <<Http(500, Text(<<"Internal Server ", "Error">>))>>
    /\ Len(sent[p]) = 1
    /\ Returned(p, <<"Could not find a ticker symbol for ", "Apple", ".">>)

\* the parsed body of the answer to p's exchange-rate request
RatesData(p) == resp[p][1].body.v

\* p is a finished convert_currency call, made with a number and two
\* currency codes, whose request was answered with a JSON body
ConvertAnswered(p) ==
  /\ pc[p] = "done" /\ call[p].tool = "convert_currency"
  /\ IsNum(call[p].a.amount)
  /\ IsStr(call[p].a.from_currency) /\ IsStr(call[p].a.to_currency)
  /\ resp[p] # <<>> /\ resp[p][1].k = "http" /\ resp[p][1].status = 200
  /\ resp[p][1].body.t = "json"

HasRatesMap(data) ==
  data.t = "dict" /\ "rates" \in DOMAIN data.d /\ data.d["rates"].t = "dict"

\* the entry of the rates map for the upper-cased target code, None if
\* there is none
RateFor(data, to_currency) ==
  LET code == KeyOf(Upper(to_currency.s)) IN
  IF code \in DOMAIN data.d["rates"].d THEN data.d["rates"].d[code] ELSE PyNone

\* "<amount> <FROM> = <amount*rate> <TO>"
ConversionText(a, rate) ==
  ToStr(a.amount) \o <<" ">> \o Upper(a.from_currency.s) \o <<" = ">>
  \o Fixed2((a.amount.u * rate.u) \div 1000) \o <<" ">> \o Upper(a.to_currency.s)

IsConversion(v) == IsStr(v) /\ HasWord(v.s, " = ")

NoRatesText == <<"Error", ": Could not fetch exchange rates">>

NoRateText(a) == <<"Error", ": No rate found for ">> \o a.to_currency.s

\* C9 as claimed: the call returns a conversion if and only if the
\* response has a "rates" map whose entry for the upper-cased target is
\* truthy; a response without "rates" yields "Error: Could not fetch
\* exchange rates"; a missing, null or zero rate yields "Error: No rate
\* found for <to_currency>".
C9_ConversionIffTruthyRate ==
  \A p \in Procs :
    ConvertAnswered(p) =>
      LET a == call[p].a
          data == RatesData(p)
      IN
      /\ IsConversion(result[p])
           <=> (HasRatesMap(data) /\ Truthy(RateFor(data, a.to_currency)))
      /\ (data.t \in {"dict", "list"} /\ ~Contains(data, "rates").v)
           => Returned(p, NoRatesText)
      /\ (HasRatesMap(data) /\ ~Truthy(RateFor(data, a.to_currency)))
           => Returned(p, NoRateText(a))

\* C9 amended: the conversion is returned if and only if the entry is
\* truthy and a number (a non-zero int or float, or true); a truthy entry
\* that is not a number yields "Error converting currency: <reason>".
C9_ConversionIffNonZeroNumber ==
  \A p \in Procs :
    ConvertAnswered(p) =>
      LET a == call[p].a
          data == RatesData(p)
          usable == /\ HasRatesMap(data)
                    /\ Truthy(RateFor(data, a.to_currency))
                    /\ IsNum(RateFor(data, a.to_currency))
      IN
      /\ IsConversion(result[p]) <=> usable
      /\ usable => Returned(p, ConversionText(a, RateFor(data, a.to_currency)))
      /\ (data.t \in {"dict", "list"} /\ ~Contains(data, "rates").v)
           => Returned(p, NoRatesText)
      /\ (HasRatesMap(data) /\ ~Truthy(RateFor(data, a.to_currency)))
           => Returned(p, NoRateText(a))
      /\ (HasRatesMap(data) /\ Truthy(RateFor(data, a.to_currency)) /\ ~usable)
           => /\ IsStr(result[p])
              /\ SubSeq(result[p].s, 1, 2) = <<"Error", " converting currency: ">>

\* a rate of 0.85 for the lower-case target "eur" converted 100.0 usd
C9_Witness ==
  \E p \in Procs :
    /\ ConvertAnswered(p)
    /\ call[p].a.to_currency = PyStr(<<"eur">>)
    /\ HasRatesMap(RatesData(p))
    /\ RateFor(RatesData(p), call[p].a.to_currency) = PyFloat(850)
    /\ Returned(p, <<"1", "0", "0", ".", "0", " ", "USD", " = ",
                     "8", "5", ".", "0", "0", " ", "EUR">>)

\* the keywords kw without location
WithoutLocation(kw) == [n \in (DOMAIN kw) \ {"location"} |-> kw[n]]

Falsy(kw, n) == n \notin DOMAIN kw \/ ~Truthy(kw[n])

\* C10: get_weather issues no request when it has no usable city: with
\* city None or not passed and location missing or empty, or with an empty
\* city, it returns "Error: No city provided." at once; and when city is
\* passed and not None, location is never consulted (an empty city is not
\* replaced by the location).
C10_NoCityNoRequest ==
  \A p \in Procs :
    ActiveTool(p, "get_weather") =>
      LET kw == call[p].a
          noCity == "city" \notin DOMAIN kw \/ kw["city"].t = "None"
      IN
      /\ ((noCity /\ Falsy(kw, "location")) \/ (~noCity /\ Falsy(kw, "city")))
           => sent[p] = <<>> /\ Returned(p, <<"Error", ": No city provided.">>)
      /\ ~noCity =>
           SameAsAlone(p, [tool |-> "get_weather", a |-> WithoutLocation(kw)],
                       TAVILY_API_KEY)
      /\ (~noCity /\ sent[p] # <<>>) =>
           sent[p][1].target = <<"http://wttr.in/">> \o kw["city"].s \o <<"?format=3">>

\* an empty city was not replaced by the location that came with it
C10_Witness ==
  \E p \in Procs :
    /\ call[p] = [tool |-> "get_weather",
                  a |-> [city |-> PyStr(<<>>), location |-> PyStr(<<"Paris">>)]]
    /\ sent[p] = <<>>
    /\ Returned(p, <<"Error", ": No city provided.">>)

\* C6: no tool call writes a module-level variable (the credential keeps
\* the value read at load), so in every interleaving of the calls of a
\* round each call issues the requests and returns the result it would
\* running alone against the same answers.
C6_CallsAreIndependent ==
  /\ [][TAVILY_API_KEY' = TAVILY_API_KEY]_vars
  /\ [](\A p \in Procs : Active(p) => SameAsAlone(p, call[p], Getenv(env)))

\* two searches overlapped: one has its result while the other still waits
C6_Witness ==
  \E p, q \in Procs :
    /\ p # q
    /\ call[p].tool = "web_search" /\ pc[p] = "done"
    /\ call[q].tool = "web_search" /\ pc[q] = "waiting"
    /\ sent[q][1].payload.d["api_key"] = PyStr(<<"tvly-key">>)

\* ------------------------------------------------------------------------
\* The import of tools.py: line 12 and the five function definitions
\* ------------------------------------------------------------------------
NoDefault == [t |-> "no default"]

Param(name, type, default) == [name |-> name, type |-> type, default |-> default]

\* the module-level statements of tools.py, in order
ModuleStatements ==
  <<[kind |-> "assign", name |-> "TAVILY_API_KEY", decorated |-> FALSE, open |-> FALSE,
     params |-> <<>>],
    [kind |-> "def", name |-> "convert_currency", decorated |-> TRUE, open |-> FALSE,
     params |-> <<Param("amount", "float", NoDefault),
                  Param("from_currency", "str", NoDefault),
                  Param("to_currency", "str", NoDefault)>>],
    [kind |-> "def", name |-> "get_weather", decorated |-> TRUE, open |-> TRUE,
     params |-> <<Param("city", "str", PyNone)>>],
    [kind |-> "def", name |-> "web_search", decorated |-> TRUE, open |-> FALSE,
     params |-> <<Param("query", "str", NoDefault)>>],
    [kind |-> "def", name |-> "get_ticker", decorated |-> FALSE, open |-> FALSE,
     params |-> <<Param("company", "str", NoDefault)>>],
    [kind |-> "def", name |-> "get_stock_price", decorated |-> TRUE, open |-> FALSE,
     params |-> <<Param("company", "str", NoDefault)>>]>>

\* tools that other modules of the process may have registered before
\* tools.py is imported
OtherTools == <<"calculator", "get_time", "translate">>

RECURSIVE Preregistered(_, _)
\* the descriptors of the tools of OtherTools at the indices keep, from i on
Preregistered(keep, i) ==
  IF i > Len(OtherTools) THEN <<>>
  ELSE (IF i \in keep
        THEN <<[name |-> OtherTools[i], parameters |-> <<>>, open |-> FALSE]>>
        ELSE <<>>) \o Preregistered(keep, i + 1)

\* a default value fits the declared type of its parameter
DefaultCompatible(type, default) ==
  \/ default.t = type
  \/ type = "float" /\ default.t = "int"

\* one entry of a descriptor's parameters: name, type, required
Derived(prm) ==
  [name |-> prm.name, type |-> prm.type, required |-> prm.default = NoDefault]

Registered == {startup.registry[i].name : i \in DOMAIN startup.registry}

Unbound == [t |-> "unbound"]

\* the process is about to import tools.py
RegInit ==
  /\ env \in {PyNone, PyStr(<<"tvly-key">>)}
  /\ TAVILY_API_KEY = Unbound
  /\ IdleWorkers
  /\ \E keep \in SUBSET DOMAIN OtherTools :
       startup = [pc |-> 1, error |-> "none", building |-> <<>>,
                  registry |-> Preregistered(keep, 1)]
  /\ agent = NotModelled

Importing == startup.error = "none" /\ startup.pc \in DOMAIN ModuleStatements

Statement == ModuleStatements[startup.pc]

\* a statement that registers nothing: line 12 binds the module variable to
\* os.getenv's value, an undecorated def only binds the function's name
Execute ==
  /\ Importing
  /\ Statement.kind = "assign" \/ ~Statement.decorated
  /\ TAVILY_API_KEY' = IF Statement.kind = "assign" THEN Getenv(env) ELSE TAVILY_API_KEY
  /\ startup' = [startup EXCEPT !.pc = @ + 1]
  /\ UNCHANGED <<env, pc, call, sent, resp, result, agent>>

\* @tool() derives the next parameter of the descriptor from the signature;
\* a default that does not fit the declared type is a configuration error,
\* fatal to the import
InspectParam ==
  /\ Importing
  /\ Statement.kind = "def" /\ Statement.decorated
  /\ Len(startup.building) < Len(Statement.params)
  /\ LET prm == Statement.params[Len(startup.building) + 1] IN
     IF prm.default # NoDefault /\ ~DefaultCompatible(prm.type, prm.default)
     THEN startup' = [startup EXCEPT !.error = "ConfigurationError: default"]
     ELSE startup' = [startup EXCEPT !.building = Append(@, Derived(prm))]
  /\ UNCHANGED <<env, TAVILY_API_KEY, pc, call, sent, resp, result, agent>>

\* @tool() registers the finished descriptor; a name already in the
\* registry is a configuration error and the first registration stays
Register ==
  /\ Importing
  /\ Statement.kind = "def" /\ Statement.decorated
  /\ Len(startup.building) = Len(Statement.params)
  /\ IF Statement.name \in Registered
     THEN startup' = [startup EXCEPT !.error = "ConfigurationError: duplicate"]
     ELSE startup' = [startup EXCEPT
                        !.registry = Append(@, [name |-> Statement.name,
                                                parameters |-> startup.building,
                                                open |-> Statement.open]),
                        !.building = <<>>,
                        !.pc = @ + 1]
  /\ UNCHANGED <<env, TAVILY_API_KEY, pc, call, sent, resp, result, agent>>

RegNext == Execute \/ InspectParam \/ Register

RegSpec == RegInit /\ [][RegNext]_vars

DeclaredTools == {"convert_currency", "get_weather", "web_search", "get_stock_price"}

\* C4: the import registers the four declared tools without a
\* configuration error: their names are pairwise distinct, get_ticker is
\* not registered, and no declared parameter (get_weather's city included)
\* has a default that does not fit its declared type.
C4_RegistrationSucceeds ==
  /\ startup.error = "none"
  /\ "get_ticker" \notin Registered
  /\ startup.pc > Len(ModuleStatements) => DeclaredTools \subseteq Registered

\* ------------------------------------------------------------------------
\* The driver of test.py and the agent entry point main(query) it calls
\* ------------------------------------------------------------------------
\* the number of entries of test.py's queries list
NumQueries == 7

\* the round limit of the agent loop
maxRounds == 3

\* the most tool calls the completion service asks for in one round
MaxCalls == 2

\* the requests of one round: one to MaxCalls calls of a registered tool,
\* or a call of a tool that is in no registry
ToolCallLists ==
  {<<"bogus">>} \cup UNION {[1..n -> {"get_weather"}] : n \in 1..MaxCalls}

NoAnswer == [t |-> "absent"]

\* no agent turn in progress
NoTurn(qi) ==
  [qi |-> qi, phase |-> "idle", round |-> 0, pendingCalls |-> <<>>,
   results |-> <<>>, finalAnswer |-> NoAnswer]

\* the slip of a loop without a round limit
RoundLimitNever(round) == FALSE

\* the rounds are used up after round
RoundLimitReached(round) == round >= maxRounds

RECURSIVE Concatenation(_)
\* the outputs of the collected results, one after the other
Concatenation(results) ==
  IF results = <<>> THEN <<>>
  ELSE results[1].output \o <<"\n">> \o Concatenation(Tail(results))

\* what the Tool Invoker makes of one request: an error string for a tool
\* the registry does not hold, else the tool's returned string or, when
\* the body raised or ran past its deadline, an error string
InvokerOutputs(toolName) ==
  IF toolName \notin DeclaredTools
  THEN {<<"Error", ": UnknownToolError ", toolName>>}
  ELSE {<<toolName, " output">>, <<"Error", " in ", toolName>>}

AgentInit ==
  /\ env \in {PyNone, PyStr(<<"tvly-key">>)}
  /\ TAVILY_API_KEY = Getenv(env)
  /\ IdleWorkers
  /\ startup = NotModelled
  /\ agent = NoTurn(1)

\* test.py line 20: the driver calls main(query) for the next query; a new
\* turn starts and the completion service is consulted for round 1
DriverCall ==
  /\ agent.phase = "idle" /\ agent.qi <= NumQueries
  /\ agent' = [agent EXCEPT !.phase = "awaiting", !.round = 1]
  /\ UNCHANGED toolVars /\ UNCHANGED startup

\* the completion service answers with a final answer
DecideFinal ==
  /\ agent.phase = "awaiting"
  /\ agent' = [agent EXCEPT !.phase = "done",
                            !.finalAnswer = PyStr(<<"final answer">>)]
  /\ UNCHANGED toolVars /\ UNCHANGED startup

\* the completion service answers with the tool calls of this round
DecideCalls ==
  /\ agent.phase = "awaiting"
  /\ \E calls \in ToolCallLists :
       agent' = [agent EXCEPT !.phase = "executing", !.pendingCalls = calls]
  /\ UNCHANGED toolVars /\ UNCHANGED startup

\* the next request of the round goes through the Tool Invoker
Invoke ==
  /\ agent.phase = "executing" /\ agent.pendingCalls # <<>>
  /\ LET toolName == Head(agent.pendingCalls) IN
     \E out \in InvokerOutputs(toolName) :
       agent' = [agent EXCEPT
                   !.pendingCalls = Tail(@),
                   !.results = Append(@, [toolName |-> toolName, output |-> out])]
  /\ UNCHANGED toolVars /\ UNCHANGED startup

\* the round is over: past the round limit the turn ends with the partial
\* synthesis and its marker, else the results go back to the completion
\* service for the next round
Aggregate ==
  /\ agent.phase = "executing" /\ agent.pendingCalls = <<>>
  /\ IF RoundLimitReached(agent.round)
     THEN agent' = [agent EXCEPT
                      !.phase = "done",
                      !.finalAnswer = PyStr(Concatenation(agent.results)
                                            \o <<"unable to fully resolve">>)]
     ELSE agent' = [agent EXCEPT !.phase = "awaiting", !.round = @ + 1]
  /\ UNCHANGED toolVars /\ UNCHANGED startup

\* test.py lines 20-21: main returns, the driver prints the response and
\* goes on to the next query; nothing of the turn is kept
DriverPrint ==
  /\ agent.phase = "done"
  /\ agent' = NoTurn(agent.qi + 1)
  /\ UNCHANGED toolVars /\ UNCHANGED startup

AgentNext ==
  \/ DriverCall
  \/ DecideFinal
  \/ DecideCalls
  \/ Invoke
  \/ Aggregate
  \/ DriverPrint

\* the driver, the loop and the services it waits for keep taking steps
AgentSpec == AgentInit /\ [][AgentNext]_vars /\ WF_vars(AgentNext)

\* the turn ended degraded: every collected output, then the marker
Degraded ==
  /\ agent.finalAnswer = PyStr(Concatenation(agent.results)
                               \o <<"unable to fully resolve">>)
  /\ agent.round = maxRounds

\* C7: whatever the completion service answers, also when it never gives a
\* final answer, every call of the entry point ends after at most
\* maxRounds rounds and returns a string: the service's final answer, or
\* the concatenation of all collected results with the "unable to fully
\* resolve" marker.
C7_TurnEndsWithinMaxRounds ==
  /\ [](agent.round <= maxRounds)
  /\ [](agent.phase = "done" =>
          /\ IsStr(agent.finalAnswer)
          /\ agent.finalAnswer = PyStr(<<"final answer">>) \/ Degraded)
  /\ (agent.phase = "awaiting") ~> (agent.phase = "done")

\* a service that asked for tools in every round: the turn ended degraded
C7_Witness ==
  /\ agent.phase = "done"
  /\ Degraded
  /\ Len(agent.results) >= maxRounds
  /\ HasWord(agent.finalAnswer.s, "unable to fully resolve")

====
